---- MODULE Spec2Model ----
(***************************************************************************)
(* Controller of the YouTube music overlay (src/overlay.js): the playlist  *)
(* with its cursor, the localStorage record, the YouTube player the script *)
(* drives, and the metadata polling timers.                                *)
(*                                                                         *)
(* Display of the overlay (the script in src/overlay.css:433-926): the     *)
(* WebSocket it keeps to the music player, its reconnect, heartbeat and    *)
(* request timers, and the replica of the playlist it renders.             *)
(*                                                                         *)
(* Every JavaScript function of overlay.js is an operator from a program   *)
(* state record to a program state record, so that a handler is the        *)
(* composition of the calls it makes; an action applies one whole handler. *)
(***************************************************************************)
EXTENDS Integers, Sequences, FiniteSets, TLC

\* ------------------------------------------------------------------ bounds
MaxLen == 2          \* longest playlist the model builds
MaxIntervals == 2    \* most polling timers alive at once
MaxSockets == 2      \* most WebSockets of the display alive at once
MaxTimers == 2       \* most reconnect timers of the display armed at once
MaxPending == 2      \* most 2 s request timers of the display armed at once

\* --------------------------------------------------------- JavaScript values
NaN == -99           \* the number NaN (result of parseInt on a non-number)
NULL == "<null>"     \* localStorage.getItem / URLSearchParams.get on a missing key

\* undefined, what a call of a function without a return statement yields
UNDEFINED == [defined |-> FALSE, val |-> 0]

\* YT.PlayerState
UNSTARTED == -1
ENDED == 0
PLAYING == 1
PAUSED == 2

\* integers that occur as cursors and volumes
IntRange == (-6 .. 9) \cup {30, 50, 150}

\* their decimal texts
IntStrings == {ToString(i) : i \in IntRange}
IntOf == [s \in IntStrings |-> CHOOSE i \in IntRange : ToString(i) = s]

\* Number.prototype.toString
NumToString(n) == IF n = NaN THEN "NaN" ELSE ToString(n)

\* parseInt on the strings the model stores: decimal integers, anything else NaN
parseInt(s) == IF s \in IntStrings THEN IntOf[s] ELSE NaN

\* JavaScript + on numbers
JsAdd(a, b) == IF a = NaN \/ b = NaN THEN NaN ELSE a + b

\* JavaScript % : the result takes the sign of the dividend
JsRem(a, n) ==
    IF a = NaN THEN NaN
    ELSE IF a >= 0 THEN a % n
    ELSE 0 - ((0 - a) % n)

\* ------------------------------------------------------------- identifiers
ID1 == "dQw4w9WgXcQ"
ID2 == "not-a-video"
SHORT == "abc"
URL1 == "https://youtu.be/dQw4w9WgXcQ"
ID3 == "9bZkp7q19f0"
URL_WATCH == "https://www.youtube.com/watch?v=dQw4w9WgXcQ"
URL_WATCH_T == "https://www.youtube.com/watch?v=9bZkp7q19f0&t=9"
URL_AMPV == "https://www.youtube.com/watch?t=9&v=dQw4w9WgXcQ"
URL_EMBED == "https://www.youtube.com/embed/dQw4w9WgXcQ"
URL_V == "https://www.youtube.com/v/dQw4w9WgXcQ"
URL_BAD == "https://example.com/abc"

\* characters of the parts the urls are made of
Id1Chars == <<"d","Q","w","4","w","9","W","g","X","c","Q">>
Id3Chars == <<"9","b","Z","k","p","7","q","1","9","f","0">>
HostChars == <<"h","t","t","p","s",":","/","/","w","w","w",".","y","o","u","t","u","b","e",".","c","o","m","/">>

\* the character sequences of the strings typed into the url field
Chars(s) ==
    CASE s = ID1 -> <<"d","Q","w","4","w","9","W","g","X","c","Q">>
      [] s = ID2 -> <<"n","o","t","-","a","-","v","i","d","e","o">>
      [] s = SHORT -> <<"a","b","c">>
      [] s = URL1 -> <<"h","t","t","p","s",":","/","/","y","o","u","t","u",".","b","e","/",
                       "d","Q","w","4","w","9","W","g","X","c","Q">>
      [] s = ID3 -> Id3Chars
      [] s = URL_WATCH -> HostChars \o <<"w","a","t","c","h","?","v","=">> \o Id1Chars
      [] s = URL_WATCH_T -> HostChars \o <<"w","a","t","c","h","?","v","=">> \o Id3Chars \o <<"&","t","=","9">>
      [] s = URL_AMPV -> HostChars \o <<"w","a","t","c","h","?","t","=","9","&","v","=">> \o Id1Chars
      [] s = URL_EMBED -> HostChars \o <<"e","m","b","e","d","/">> \o Id1Chars
      [] s = URL_V -> HostChars \o <<"v","/">> \o Id1Chars
      [] s = URL_BAD -> <<"h","t","t","p","s",":","/","/","e","x","a","m","p","l","e",".","c","o","m","/","a","b","c">>
      [] OTHER -> <<>>

Strings == {ID1, ID2, SHORT, URL1, "", ID3, URL_WATCH, URL_WATCH_T, URL_AMPV,
            URL_EMBED, URL_V, URL_BAD}

\* the string with the given characters
StringOf(cs) == CHOOSE s \in Strings : Chars(s) = cs

WordChars == {"a","b","c","d","e","f","g","h","i","j","k","l","m","n","o","p","q",
              "r","s","t","u","v","w","x","y","z","B","Q","W","X","Z",
              "0","1","4","7","9","_"}

\* the marker alternative without embed\/
MarkerAtNoEmbed(cs, b, e) ==
    LET sub == SubSeq(cs, b, e - 1)
        n == e - b
    IN  \/ n = 9 /\ SubSeq(sub, 1, 5) = <<"y","o","u","t","u">>
                 /\ SubSeq(sub, 7, 9) = <<"b","e","/">>
        \/ n = 2 /\ sub = <<"v","/">>
        \/ n = 4 /\ sub[1] = "u" /\ sub[2] = "/" /\ sub[3] \in WordChars /\ sub[4] = "/"
        \/ n = 8 /\ sub = <<"w","a","t","c","h","?","v","=">>
        \/ n = 3 /\ sub = <<"&","v","=">>

\* does the marker alternative of the regular expression end at position e
\* (exclusive) when it starts at position b: youtu.be\/ | v\/ | u\/\w\/ |
\* embed\/ | watch\?v= | &v=     (the dot of youtu.be matches any character)
MarkerAt(cs, b, e) ==
    LET sub == SubSeq(cs, b, e - 1)
        n == e - b
    IN  \/ n = 9 /\ SubSeq(sub, 1, 5) = <<"y","o","u","t","u">>
                 /\ SubSeq(sub, 7, 9) = <<"b","e","/">>
        \/ n = 2 /\ sub = <<"v","/">>
        \/ n = 4 /\ sub[1] = "u" /\ sub[2] = "/" /\ sub[3] \in WordChars /\ sub[4] = "/"
        \/ n = 6 /\ sub = <<"e","m","b","e","d","/">>
        \/ n = 8 /\ sub = <<"w","a","t","c","h","?","v","=">>
        \/ n = 3 /\ sub = <<"&","v","=">>

\* the positions at which group 2 of the regular expression can start
GroupStarts(cs) ==
    {e \in 2 .. Len(cs) + 1 : \E b \in 1 .. e - 1 : MarkerAt(cs, b, e)}

\* group 2, ([^#&?]*): the longest run without # & ? from position e on
RunFrom(cs, e) ==
    LET stops == {k \in e .. Len(cs) : cs[k] \in {"#", "&", "?"}}
        last == IF stops = {} THEN Len(cs)
                ELSE (CHOOSE k \in stops : \A j \in stops : k <= j) - 1
    IN  SubSeq(cs, e, last)

\* extractVideoId: the leading .* is greedy, so the marker that matches is
\* the last one in the input
extractVideoId(url) ==
    LET cs == Chars(url)
        starts == GroupStarts(cs)
        e == CHOOSE x \in starts : \A y \in starts : y <= x
    IN  IF starts # {} /\ Len(RunFrom(cs, e)) = 11 THEN StringOf(RunFrom(cs, e))
        ELSE IF Len(cs) = 11 THEN url
        ELSE NULL

\* ------------------------------------------------------------------- state
VARIABLES
    playlist,        \* let playlist: sequence of [id, title, author]
    currentIndex,    \* let currentIndex
    currentVideoId,  \* let currentVideoId
    stPlaylist,      \* localStorage 'youtubePlaylist'
    stIndex,         \* localStorage 'currentIndex'
    stVolume,        \* localStorage 'youtubePlayerVolume'
    pState,          \* player.getPlayerState()
    pVid,            \* the video the player has loaded, "" when none
    pVolume,         \* the volume last given to player.setVolume
    pMuted,          \* player.isMuted()
    pMeta,           \* the video whose data player.getVideoData() reports, "" when none
    intervals,       \* number of live setInterval polling timers
    phase,           \* "boot": player constructed; "ready": onPlayerReady done;
                     \* "crashed": onPlayerReady threw
    last,            \* the handler that ran last, what it was given and what it called
    \* the display script (src/overlay.css:433-926)
    dPhase,            \* "boot": document loading; "ready": DOMContentLoaded handler
                       \* done; "crashed": the handler threw
    dPlaylist,         \* let playlist of the display script
    dCurrentIndex,     \* let currentIndex of the display script
    songInfo,          \* textContent of #song-info
    socket,            \* readyState of the WebSocket in let socket, "null" for null
    orphans,           \* how many WebSockets let socket no longer holds are
                       \* CONNECTING and OPEN; their handlers are still attached
    reconnectAttempts, \* let reconnectAttempts
    reconnectTimers,   \* number of armed setTimeout(connectWebSocket, delay)
    heartbeatInterval, \* number of live intervals of startHeartbeat
    requestTimers      \* the armed 2 s timers of onopen, oldest first; each keeps
                       \* whether a snapshot was rendered since it was armed

\* the variables of the display script alone
dvars == <<dPhase, dPlaylist, dCurrentIndex, songInfo, socket, orphans,
           reconnectAttempts, reconnectTimers, heartbeatInterval, requestTimers>>

\* the variables of the controller script alone
cvars == <<playlist, currentIndex, currentVideoId, stVolume, pState, pVid, pVolume,
           pMuted, pMeta, intervals, phase>>

vars == <<playlist, currentIndex, currentVideoId, stPlaylist, stIndex, stVolume,
          pState, pVid, pVolume, pMuted, pMeta, intervals, phase, last, dvars>>

\* ---------------------------------------------------------- stored playlist
\* localStorage holds strings; the playlist key holds nothing, text that is
\* not JSON, or the JSON text of an array of tracks
Absent == [kind |-> "absent", val |-> <<>>]
Garbage == [kind |-> "garbage", val |-> <<>>]

\* JSON.stringify of an array of tracks
JsonStringify(pl) == [kind |-> "json", val |-> pl]

\* JSON.parse: the array for JSON text, a SyntaxError otherwise
JsonParseThrows(text) == text.kind # "json"
JsonParse(text) == text.val

\* a stored value is truthy when it is a non-empty string
TruthyText(text) == text.kind \in {"garbage", "json"}
TruthyString(s) == s # NULL /\ s # ""

Track(id, title, author) == [id |-> id, title |-> title, author |-> author]

\* what the capability reports for a video once its data has arrived
TitleOf(id) == "Title " \o id
AuthorOf(id) == "Artist " \o id

\* player.getVideoData(): empty strings until data has arrived
VideoData(meta) ==
    IF meta = "" THEN [title |-> "", author |-> ""]
    ELSE [title |-> TitleOf(meta), author |-> AuthorOf(meta)]

NoLoad == [called |-> FALSE, index |-> 0, done |-> FALSE, preIndex |-> 0, preVid |-> ""]

\* the program state a handler starts from
Cur == [playlist |-> playlist, currentIndex |-> currentIndex,
        currentVideoId |-> currentVideoId,
        stPlaylist |-> stPlaylist, stIndex |-> stIndex, stVolume |-> stVolume,
        pState |-> pState, pVid |-> pVid, pVolume |-> pVolume, pMuted |-> pMuted,
        calls |-> <<>>, lv |-> NoLoad, fault |-> FALSE, ret |-> UNDEFINED]

Call(fn, arg) == [fn |-> fn, arg |-> arg]

\* --------------------------------------------------------------- functions
\* loadVideo with the load issued outside the range check
loadVideoUnguarded(S, index) ==
    IF index # NaN /\ index >= 0 /\ index < Len(S.playlist)
    THEN [S EXCEPT !.currentIndex = index,
                   !.currentVideoId = S.playlist[index + 1].id,
                   !.pVid = S.playlist[index + 1].id,
                   !.pState = UNSTARTED,
                   !.calls = Append(@, Call("loadVideoById", S.playlist[index + 1].id)),
                   !.lv = [called |-> TRUE, index |-> index, done |-> TRUE,
                           preIndex |-> S.currentIndex, preVid |-> S.currentVideoId]]
    ELSE [S EXCEPT !.calls = Append(@, Call("loadVideoById", S.currentVideoId)),
                   !.lv = [called |-> TRUE, index |-> index, done |-> FALSE,
                           preIndex |-> S.currentIndex, preVid |-> S.currentVideoId]]

\* loadVideo(index): the guarded load of one playlist entry; player.loadVideoById
\* makes the player drop what it plays and report "unstarted"
loadVideo(S, index) ==
    IF index # NaN /\ index >= 0 /\ index < Len(S.playlist)
    THEN [S EXCEPT !.currentIndex = index,
                   !.currentVideoId = S.playlist[index + 1].id,
                   !.pVid = S.playlist[index + 1].id,
                   !.pState = UNSTARTED,
                   !.calls = Append(@, Call("loadVideoById", S.playlist[index + 1].id)),
                   !.lv = [called |-> TRUE, index |-> index, done |-> TRUE,
                           preIndex |-> S.currentIndex, preVid |-> S.currentVideoId]]
    ELSE [S EXCEPT !.lv = [called |-> TRUE, index |-> index, done |-> FALSE,
                           preIndex |-> S.currentIndex, preVid |-> S.currentVideoId]]

\* playNextVideo without the wraparound
playNextVideoNoWrap(S) ==
    IF Len(S.playlist) = 0 THEN S
    ELSE LET i == JsAdd(S.currentIndex, 1)
         IN  loadVideo([S EXCEPT !.currentIndex = i], i)

\* playNextVideo
playNextVideo(S) ==
    IF Len(S.playlist) = 0 THEN S
    ELSE LET i == JsRem(JsAdd(S.currentIndex, 1), Len(S.playlist))
         IN  loadVideo([S EXCEPT !.currentIndex = i], i)

\* playPreviousVideo without the wraparound
playPreviousVideoNoWrap(S) ==
    IF Len(S.playlist) = 0 THEN S
    ELSE LET i == JsAdd(S.currentIndex, -1)
         IN  loadVideo([S EXCEPT !.currentIndex = i], i)

\* playPreviousVideo
playPreviousVideo(S) ==
    IF Len(S.playlist) = 0 THEN S
    ELSE LET i == JsRem(JsAdd(JsAdd(S.currentIndex, -1), Len(S.playlist)), Len(S.playlist))
         IN  loadVideo([S EXCEPT !.currentIndex = i], i)

\* localStorage.setItem('youtubePlaylist', JSON.stringify(playlist))
setItemPlaylist(S) == [S EXCEPT !.stPlaylist = JsonStringify(S.playlist)]

\* localStorage.setItem('currentIndex', currentIndex.toString())
setItemIndex(S) == [S EXCEPT !.stIndex = NumToString(S.currentIndex)]

\* savePlaylistToStorage: two setItem calls
savePlaylistToStorage(S) == setItemIndex(setItemPlaylist(S))

\* addToPlaylist that skips an identifier the playlist already holds
addToPlaylistDedupe(S, videoId, title, author) ==
    IF \E k \in 1 .. Len(S.playlist) : S.playlist[k].id = videoId
    THEN [S EXCEPT !.ret = UNDEFINED]
    ELSE [savePlaylistToStorage(
              [S EXCEPT !.playlist = Append(@, Track(videoId, title, author))])
          EXCEPT !.ret = UNDEFINED]

\* addToPlaylist: push, refresh the list, save; there is no return statement
addToPlaylist(S, videoId, title, author) ==
    [savePlaylistToStorage(
         [S EXCEPT !.playlist = Append(@, Track(videoId, title, author))])
     EXCEPT !.ret = UNDEFINED]

\* addVideoToPlaylistById (autostart)
addVideoToPlaylistById(S, videoId) ==
    loadVideo(addToPlaylist(S, videoId, "Loading...", "Loading..."), 0)

\* extractVideoId on every text the model types
Resolved == [s \in Strings |-> extractVideoId(s)]

\* addVideoToPlaylist without the test of what extractVideoId returned
addVideoToPlaylistNoCheck(S, input) ==
    IF input = "" THEN S
    ELSE LET S1 == addToPlaylist(S, Resolved[input], "Loading...", "Loading...")
         IN  IF Len(S1.playlist) = 1 THEN loadVideo(S1, 0) ELSE S1

\* addVideoToPlaylist that starts the first entry after every add, as
\* addVideoToPlaylistById does
addVideoToPlaylistAlwaysLoads(S, input) ==
    IF input = "" THEN S
    ELSE IF Resolved[input] = NULL THEN S
    ELSE loadVideo(addToPlaylist(S, Resolved[input], "Loading...", "Loading..."), 0)

\* addVideoToPlaylist: the add button, given the text of the url field
addVideoToPlaylist(S, input) ==
    IF input = "" THEN S
    ELSE IF Resolved[input] = NULL THEN S
    ELSE LET S1 == addToPlaylist(S, Resolved[input], "Loading...", "Loading...")
         IN  IF Len(S1.playlist) = 1 THEN loadVideo(S1, 0) ELSE S1

\* updateMarquee without the save
updateMarqueeNoSave(S, vd, throws) ==
    IF throws THEN S
    ELSE LET videoTitle == IF vd.title = "" THEN "Unknown Title" ELSE vd.title
             author == IF vd.author = "" THEN "Unknown Artist" ELSE vd.author
             i == S.currentIndex
         IN  IF i # NaN /\ i >= 0 /\ i < Len(S.playlist)
             THEN [S EXCEPT !.playlist[i + 1].title = videoTitle,
                            !.playlist[i + 1].author = author]
             ELSE S

\* updateMarquee without the try/catch
updateMarqueeNoCatch(S, vd, throws) ==
    IF throws THEN [S EXCEPT !.fault = TRUE]
    ELSE LET videoTitle == IF vd.title = "" THEN "Unknown Title" ELSE vd.title
             author == IF vd.author = "" THEN "Unknown Artist" ELSE vd.author
             i == S.currentIndex
         IN  IF i # NaN /\ i >= 0 /\ i < Len(S.playlist)
             THEN savePlaylistToStorage(
                      [S EXCEPT !.playlist[i + 1].title = videoTitle,
                                !.playlist[i + 1].author = author])
             ELSE S

\* updateMarquee, given what player.getVideoData() returns or that it throws
updateMarquee(S, vd, throws) ==
    IF throws THEN S
    ELSE LET videoTitle == IF vd.title = "" THEN "Unknown Title" ELSE vd.title
             author == IF vd.author = "" THEN "Unknown Artist" ELSE vd.author
             i == S.currentIndex
         IN  IF i # NaN /\ i >= 0 /\ i < Len(S.playlist)
             THEN savePlaylistToStorage(
                      [S EXCEPT !.playlist[i + 1].title = videoTitle,
                                !.playlist[i + 1].author = author])
             ELSE S

\* player.setVolume(v)
setVolume(S, v) ==
    [S EXCEPT !.pVolume = v, !.calls = Append(@, Call("setVolume", NumToString(v)))]

\* player.mute() / player.unMute()
mute(S) == [S EXCEPT !.pMuted = TRUE, !.calls = Append(@, Call("mute", ""))]
unMute(S) == [S EXCEPT !.pMuted = FALSE, !.calls = Append(@, Call("unMute", ""))]

\* loadPlaylistFromStorage, volume part
restoreVolume(S) ==
    IF S.stVolume # NULL
    THEN LET S1 == setVolume(S, parseInt(S.stVolume))
         IN  IF parseInt(S.stVolume) = 0 THEN mute(S1) ELSE unMute(S1)
    ELSE S

\* the playlist part without the test that something is stored:
\* JSON.parse(null) is null, and the refresh of the list faults on it
restorePlaylistUnchecked(S) ==
    IF JsonParseThrows(S.stPlaylist) THEN [S EXCEPT !.fault = TRUE]
    ELSE LET S1 == [S EXCEPT !.playlist = JsonParse(S.stPlaylist),
                             !.currentIndex = IF TruthyString(S.stIndex)
                                              THEN parseInt(S.stIndex) ELSE 0]
         IN  IF Len(S1.playlist) > 0 THEN loadVideo(S1, S1.currentIndex) ELSE S1

\* loadPlaylistFromStorage, playlist part
restorePlaylist(S) ==
    IF TruthyText(S.stPlaylist)
    THEN IF JsonParseThrows(S.stPlaylist) THEN [S EXCEPT !.fault = TRUE]
         ELSE LET S1 == [S EXCEPT !.playlist = JsonParse(S.stPlaylist),
                                  !.currentIndex = IF TruthyString(S.stIndex)
                                                   THEN parseInt(S.stIndex) ELSE 0]
              IN  IF Len(S1.playlist) > 0 THEN loadVideo(S1, S1.currentIndex) ELSE S1
    ELSE S

\* loadPlaylistFromStorage
loadPlaylistFromStorage(S) == restorePlaylist(restoreVolume(S))

\* onPlayerReady, the initial volume
initVolume(S) ==
    IF S.stVolume # NULL THEN setVolume(S, parseInt(S.stVolume)) ELSE setVolume(S, 50)

\* onPlayerReady, given the url parameters; an exception thrown by
\* loadPlaylistFromStorage ends it before any listener is installed
onPlayerReady(S, u) ==
    LET S1 == loadPlaylistFromStorage(S)
    IN  IF S1.fault THEN S1
        ELSE LET S2 == initVolume(S1)
             IN  IF u.autostart = "true" /\ u.video # NULL /\ u.video # ""
                 THEN addVideoToPlaylistById(S2, u.video)
                 ELSE S2

\* the slider's listener without the unmute branch
volumeInputNoUnmute(S, volume) ==
    LET S1 == [setVolume(S, parseInt(volume)) EXCEPT !.stVolume = volume]
    IN  IF parseInt(volume) = 0 THEN mute(S1) ELSE S1

\* the volume slider's input listener
volumeInput(S, volume) ==
    LET S1 == [setVolume(S, parseInt(volume)) EXCEPT !.stVolume = volume]
    IN  IF parseInt(volume) = 0 THEN mute(S1)
        ELSE IF S1.pMuted THEN unMute(S1)
        ELSE S1

\* ----------------------------------------------------------------- actions
Commit(S) ==
    /\ playlist' = S.playlist
    /\ currentIndex' = S.currentIndex
    /\ currentVideoId' = S.currentVideoId
    /\ stPlaylist' = S.stPlaylist
    /\ stIndex' = S.stIndex
    /\ stVolume' = S.stVolume
    /\ pState' = S.pState
    /\ pVid' = S.pVid
    /\ pVolume' = S.pVolume
    /\ pMuted' = S.pMuted
    /\ UNCHANGED dvars

\* last: the handler op ran on arg and ended in S; mutated says whether it
\* changed the playlist or the cursor
Record(op, arg, S) ==
    last' = [op |-> op, arg |-> arg, preIndex |-> currentIndex, calls |-> S.calls,
             lv |-> S.lv, fault |-> S.fault,
             mutated |-> (S.playlist # playlist \/ S.currentIndex # currentIndex)]

\* window.location.search: no parameters, or autostart with a video
NoParams == [autostart |-> NULL, video |-> NULL]
Autostart == [autostart |-> "true", video |-> SHORT]
Urls == {NoParams, Autostart}

\* ?video=VIDEO_ID without autostart
VideoOnly == [autostart |-> NULL, video |-> ID1]
AllUrls == Urls \cup {VideoOnly}

\* the player calls onReady on a page opened with the parameters u
OnPlayerReady(u) ==
    /\ phase = "boot"
    /\ LET S == onPlayerReady(Cur, u)
       IN  /\ Len(S.playlist) <= MaxLen
           /\ Commit(S)
           /\ Record("onPlayerReady",
                     IF u = Autostart THEN "autostart"
                     ELSE IF u = VideoOnly THEN "video" ELSE "", S)
           /\ phase' = IF S.fault THEN "crashed" ELSE "ready"
    /\ UNCHANGED <<pMeta, intervals>>

\* the page is loaded again: the script's variables, the player and the
\* timers start afresh, localStorage stays
Reload ==
    /\ phase \in {"ready", "crashed"}
    /\ playlist' = <<>>
    /\ currentIndex' = 0
    /\ currentVideoId' = ""
    /\ pState' = UNSTARTED
    /\ pVid' = ""
    /\ pVolume' = 50
    /\ pMuted' = FALSE
    /\ pMeta' = ""
    /\ intervals' = 0
    /\ phase' = "boot"
    /\ last' = [op |-> "reload", arg |-> "", preIndex |-> 0, calls |-> <<>>,
                lv |-> NoLoad, fault |-> FALSE, mutated |-> FALSE]
    /\ UNCHANGED <<stPlaylist, stIndex, stVolume>>
    /\ UNCHANGED dvars

\* the play button's handler without the test of the playlist
playClickUnguarded(S) == [S EXCEPT !.calls = Append(@, Call("playVideo", ""))]

\* the play button's handler
playClick(S) ==
    IF Len(S.playlist) > 0
    THEN [S EXCEPT !.calls = Append(@, Call("playVideo", ""))]
    ELSE S

\* play button
PlayButton ==
    /\ phase = "ready"
    /\ LET S == playClick(Cur)
       IN  Commit(S) /\ Record("play", "", S)
    /\ UNCHANGED <<pMeta, intervals, phase>>

\* pause button
PauseButton ==
    /\ phase = "ready"
    /\ LET S == [Cur EXCEPT !.calls = Append(@, Call("pauseVideo", ""))]
       IN  Commit(S) /\ Record("pause", "", S)
    /\ UNCHANGED <<pMeta, intervals, phase>>

\* next button
NextButton ==
    /\ phase = "ready"
    /\ LET S == playNextVideo(Cur)
       IN  Commit(S) /\ Record("next", "", S)
    /\ UNCHANGED <<pMeta, intervals, phase>>

\* previous button
PrevButton ==
    /\ phase = "ready"
    /\ LET S == playPreviousVideo(Cur)
       IN  Commit(S) /\ Record("previous", "", S)
    /\ UNCHANGED <<pMeta, intervals, phase>>

\* what is typed into the url field
Inputs == {"", SHORT, ID1, URL1}

\* the same with more urls, and texts that are no video
AllInputs == Inputs \cup {ID2, ID3, URL_WATCH, URL_WATCH_T, URL_AMPV, URL_EMBED, URL_V, URL_BAD}

\* add button
AddVideo(input) ==
    /\ phase = "ready"
    /\ LET S == addVideoToPlaylist(Cur, input)
       IN  /\ Len(S.playlist) <= MaxLen
           /\ Commit(S)
           /\ Record("add", input, S)
    /\ UNCHANGED <<pMeta, intervals, phase>>

\* click on the playlist item updatePlaylistUI made for index
ClickItem(index) ==
    /\ phase = "ready"
    /\ index \in 0 .. Len(playlist) - 1
    /\ LET S == loadVideo(Cur, index)
       IN  Commit(S) /\ Record("click", NumToString(index), S)
    /\ UNCHANGED <<pMeta, intervals, phase>>

\* values of the volume slider, an input of type range (src/overlay.css:152)
\* with the default limits 0 and 100
SliderValues == {"0", "1", "30", "100"}

\* the slider is moved
VolumeInput(volume) ==
    /\ phase = "ready"
    /\ LET S == volumeInput(Cur, volume)
       IN  Commit(S) /\ Record("volume", volume, S)
    /\ UNCHANGED <<pMeta, intervals, phase>>

\* onPlayerStateChange with PLAYING: refresh the marquee, start a polling timer
PlayerPlaying(throws) ==
    /\ pVid # ""
    /\ pState \in {UNSTARTED, PAUSED, ENDED}
    /\ intervals < MaxIntervals
    /\ LET S == updateMarquee([Cur EXCEPT !.pState = PLAYING], VideoData(pMeta), throws)
       IN  Commit(S) /\ Record("playing", IF throws THEN "throws" ELSE "", S)
    /\ intervals' = intervals + 1
    /\ UNCHANGED <<pMeta, phase>>

\* onPlayerStateChange with PAUSED: nothing to do
PlayerPaused ==
    /\ pVid # ""
    /\ pState = PLAYING
    /\ LET S == [Cur EXCEPT !.pState = PAUSED]
       IN  Commit(S) /\ Record("paused", "", S)
    /\ UNCHANGED <<pMeta, intervals, phase>>

\* onPlayerStateChange with ENDED: play the next video
PlayerEnded ==
    /\ pVid # ""
    /\ pState = PLAYING
    /\ LET S == playNextVideo([Cur EXCEPT !.pState = ENDED])
       IN  Commit(S) /\ Record("ended", "", S)
    /\ UNCHANGED <<pMeta, intervals, phase>>

\* a polling timer that refreshes nothing
TickNoRefresh(throws) ==
    /\ intervals > 0
    /\ IF pState = PLAYING
       THEN /\ Commit(Cur) /\ Record("tick", IF throws THEN "throws" ELSE "", Cur)
            /\ UNCHANGED intervals
       ELSE /\ Commit(Cur) /\ Record("tick", "clear", Cur)
            /\ throws = FALSE
            /\ intervals' = intervals - 1
    /\ UNCHANGED <<pMeta, phase>>

\* one polling timer fires: refresh while playing, otherwise clear itself
Tick(throws) ==
    /\ intervals > 0
    /\ IF pState = PLAYING
       THEN /\ LET S == updateMarquee(Cur, VideoData(pMeta), throws)
               IN  Commit(S) /\ Record("tick", IF throws THEN "throws" ELSE "", S)
            /\ UNCHANGED intervals
       ELSE /\ Commit(Cur) /\ Record("tick", "clear", Cur)
            /\ throws = FALSE
            /\ intervals' = intervals - 1
    /\ UNCHANGED <<pMeta, phase>>

\* the page is terminated inside savePlaylistToStorage, between its two
\* setItem calls, while the add button's handler or a polling tick runs: S is
\* what the handler would have ended in, and of its writes to localStorage
\* only the first, of the playlist, has happened; the record is torn when the
\* cursor a restore reads from it is not the cursor that belongs to the playlist
KilledInSave ==
    /\ phase = "ready"
    /\ \E S \in {addVideoToPlaylist(Cur, input) : input \in Inputs}
                \cup (IF pState = PLAYING /\ intervals > 0
                      THEN {updateMarquee(Cur, VideoData(pMeta), FALSE)} ELSE {}) :
           /\ S.stPlaylist # stPlaylist
           /\ Len(S.playlist) <= MaxLen
           /\ stPlaylist' = S.stPlaylist
           /\ last' = [op |-> "killed",
                       arg |-> IF (IF TruthyString(stIndex) THEN parseInt(stIndex) ELSE 0)
                                   # S.currentIndex
                               THEN "torn" ELSE "",
                       preIndex |-> currentIndex, calls |-> <<>>, lv |-> NoLoad,
                       fault |-> FALSE, mutated |-> FALSE]
    /\ playlist' = <<>>
    /\ currentIndex' = 0
    /\ currentVideoId' = ""
    /\ pState' = UNSTARTED
    /\ pVid' = ""
    /\ pVolume' = 50
    /\ pMuted' = FALSE
    /\ pMeta' = ""
    /\ intervals' = 0
    /\ phase' = "boot"
    /\ UNCHANGED <<stIndex, stVolume>>
    /\ UNCHANGED dvars

\* the capability receives the data of the video it has loaded
MetaArrives ==
    /\ pVid # ""
    /\ pMeta # pVid
    /\ pMeta' = pVid
    /\ Commit(Cur) /\ Record("meta", "", Cur)
    /\ UNCHANGED <<intervals, phase>>

\* ---------------------------------------------------------------- display
\* the texts the display script puts into #song-info
CONNECTED == "Connected to music player..."
WAITING == "Waiting for connection to music player..."
NowPlayingText(videoTitle, author) == "Now Playing: " \o videoTitle \o " by " \o author

\* no WebSocket besides the one in let socket
NoOrphans == [CONNECTING |-> 0, OPEN |-> 0]

\* a field of a message that is there; one that is not is UNDEFINED
Some(v) == [defined |-> TRUE, val |-> v]

\* the fields updateSongInfo reads of params or of the message itself; a
\* title or author that is missing reads as falsy, like the empty string
Fields(title, author, pl, index) ==
    [title |-> title, author |-> author, playlist |-> pl, currentIndex |-> index]
NoFields == Fields("", "", UNDEFINED, UNDEFINED)

\* the text of a message: JSON with command, params and value, and with
\* title, author, playlist and currentIndex of its own
Message(command, params, top, value) ==
    [json |-> TRUE, command |-> command, params |-> params, top |-> top, value |-> value]

\* a text that is not JSON
NotJson ==
    [json |-> FALSE, command |-> "", params |-> UNDEFINED, top |-> NoFields,
     value |-> UNDEFINED]

\* the playlists the music player sends
SentTracks == <<Track(ID1, TitleOf(ID1), AuthorOf(ID1)), Track(SHORT, "Loading...", "Loading...")>>
SentOne == <<Track(SHORT, TitleOf(SHORT), AuthorOf(SHORT))>>

\* {command: "nowPlaying", params: {title, author, playlist, currentIndex}}
Snapshot1 ==
    Message("nowPlaying",
            Some(Fields(TitleOf(ID1), AuthorOf(ID1), Some(SentTracks), Some(1))),
            NoFields, UNDEFINED)

\* snapshots in the tagged form (with playlist and cursor, with a playlist
\* only, with a cursor only, without title) and in the bare form (with
\* playlist and cursor, with a playlist only)
Snapshots ==
    {Snapshot1,
     Message("nowPlaying",
             Some(Fields(TitleOf(SHORT), AuthorOf(SHORT), Some(SentOne), UNDEFINED)),
             NoFields, UNDEFINED),
     Message("nowPlaying",
             Some(Fields(TitleOf(SHORT), AuthorOf(SHORT), UNDEFINED, Some(1))),
             NoFields, UNDEFINED),
     Message("nowPlaying", Some(Fields("", "", Some(SentOne), Some(0))),
             NoFields, UNDEFINED),
     Message("", UNDEFINED,
             Fields(TitleOf(ID1), AuthorOf(ID1), Some(SentTracks), Some(0)), UNDEFINED),
     Message("", UNDEFINED,
             Fields(TitleOf(SHORT), AuthorOf(SHORT), Some(SentOne), UNDEFINED), UNDEFINED)}

\* {command: "pong"}
Pong == Message("pong", UNDEFINED, NoFields, UNDEFINED)

\* snapshots, pong, {command: "volumeUpdate", value: 30} and a text that is
\* not JSON
Messages ==
    Snapshots \cup {Pong, Message("volumeUpdate", UNDEFINED, NoFields, Some(30)), NotJson}

\* the state of the display script a handler starts from
DCur == [playlist |-> dPlaylist, currentIndex |-> dCurrentIndex, songInfo |-> songInfo,
         stPlaylist |-> stPlaylist, stIndex |-> stIndex,
         socket |-> socket, orphans |-> orphans,
         reconnectAttempts |-> reconnectAttempts, reconnectTimers |-> reconnectTimers,
         heartbeatInterval |-> heartbeatInterval, requestTimers |-> requestTimers,
         calls |-> <<>>, fault |-> FALSE, rendered |-> FALSE]

\* title, author (in the text of #song-info), playlist and cursor
Replica(D) == <<D.songInfo, D.playlist, D.currentIndex>>

\* the WebSockets that are CONNECTING or OPEN
Live(D) ==
    (IF D.socket \in {"CONNECTING", "OPEN"} THEN 1 ELSE 0)
    + D.orphans.CONNECTING + D.orphans.OPEN

\* socket.send(JSON.stringify({command})): an InvalidStateError while the
\* socket is CONNECTING, sent when it is OPEN, dropped when it is CLOSED
send(D, command) ==
    IF D.socket = "CONNECTING" THEN [D EXCEPT !.fault = TRUE]
    ELSE IF D.socket = "OPEN" THEN [D EXCEPT !.calls = Append(@, Call("send", command))]
    ELSE D

\* connectWebSocket: a new WebSocket replaces the one in let socket, which is
\* neither closed nor stripped of its handlers (for ws://localhost:<port> the
\* constructor does not throw)
connectWebSocket(D) ==
    [D EXCEPT !.socket = "CONNECTING",
              !.orphans = IF D.socket \in {"CONNECTING", "OPEN"}
                          THEN [@ EXCEPT ![D.socket] = @ + 1] ELSE @,
              !.calls = Append(@, Call("WebSocket", ""))]

\* socket.onopen: show the text, reset the counter, ask for the song and arm
\* the 2 s timer; an exception of send is caught before the timer is armed
onopen(D) ==
    LET D1 == send([D EXCEPT !.songInfo = CONNECTED, !.reconnectAttempts = 0],
                   "requestCurrentSongInfo")
    IN  IF D1.fault THEN [D1 EXCEPT !.fault = FALSE]
        ELSE [D1 EXCEPT !.requestTimers = Append(@, [rendered |-> FALSE])]

\* the callback of the 2 s timer
requestAgain(D) ==
    IF D.songInfo = CONNECTED
    THEN IF D.socket = "OPEN" THEN send(D, "requestCurrentSongInfo") ELSE D
    ELSE D

\* savePlaylistToStorage of the display script
displaySavePlaylistToStorage(D) ==
    [D EXCEPT !.stPlaylist = JsonStringify(D.playlist),
              !.stIndex = NumToString(D.currentIndex)]

\* updateSongInfo with a playlist that is added to the one there is
updateSongInfoAppend(D, data) ==
    IF data.command = "pong" THEN D
    ELSE IF data.command = "volumeUpdate" /\ data.value.defined THEN D
    ELSE IF /\ data.command # "" /\ data.params.defined
            /\ data.command = "nowPlaying"
            /\ data.params.val.title # "" /\ data.params.val.author # ""
    THEN LET p == data.params.val
             D1 == [D EXCEPT !.songInfo = NowPlayingText(p.title, p.author),
                             !.rendered = TRUE]
             D2 == IF p.playlist.defined
                   THEN [D1 EXCEPT !.playlist = @ \o p.playlist.val,
                                   !.currentIndex = IF p.currentIndex.defined
                                                    THEN p.currentIndex.val ELSE @]
                   ELSE D1
         IN  displaySavePlaylistToStorage(D2)
    ELSE IF data.top.title # "" /\ data.top.author # ""
    THEN LET t == data.top
             D1 == [D EXCEPT !.songInfo = NowPlayingText(t.title, t.author),
                             !.rendered = TRUE]
             D2 == IF t.playlist.defined /\ t.currentIndex.defined
                   THEN [D1 EXCEPT !.playlist = @ \o t.playlist.val,
                                   !.currentIndex = t.currentIndex.val]
                   ELSE D1
         IN  displaySavePlaylistToStorage(D2)
    ELSE D

\* updateSongInfo: pong and volumeUpdate change nothing of the replica (the
\* volume goes to the slider only); a nowPlaying with title and author, or a
\* bare object with title and author, is rendered and saved
updateSongInfo(D, data) ==
    IF data.command = "pong" THEN D
    ELSE IF data.command = "volumeUpdate" /\ data.value.defined THEN D
    ELSE IF /\ data.command # "" /\ data.params.defined
            /\ data.command = "nowPlaying"
            /\ data.params.val.title # "" /\ data.params.val.author # ""
    THEN LET p == data.params.val
             D1 == [D EXCEPT !.songInfo = NowPlayingText(p.title, p.author),
                             !.rendered = TRUE]
             D2 == IF p.playlist.defined
                   THEN [D1 EXCEPT !.playlist = p.playlist.val,
                                   !.currentIndex = IF p.currentIndex.defined
                                                    THEN p.currentIndex.val ELSE @]
                   ELSE D1
         IN  displaySavePlaylistToStorage(D2)
    ELSE IF data.top.title # "" /\ data.top.author # ""
    THEN LET t == data.top
             D1 == [D EXCEPT !.songInfo = NowPlayingText(t.title, t.author),
                             !.rendered = TRUE]
             D2 == IF t.playlist.defined /\ t.currentIndex.defined
                   THEN [D1 EXCEPT !.playlist = t.playlist.val,
                                   !.currentIndex = t.currentIndex.val]
                   ELSE D1
         IN  displaySavePlaylistToStorage(D2)
    ELSE D

\* socket.onmessage: JSON.parse and updateSongInfo inside try/catch
onmessage(D, data) == IF data.json THEN updateSongInfo(D, data) ELSE D

\* Math.min(1000 * Math.pow(1.5, reconnectAttempts), 30000), in whole
\* milliseconds
backoffDelay(attempts) ==
    LET d == (1000 * 3 ^ attempts) \div 2 ^ attempts
    IN  IF d < 30000 THEN d ELSE 30000

\* autoReconnectWebSocket of server-helper.js, the alternate way to find the
\* music player
autoReconnectWebSocket(D) == [D EXCEPT !.calls = Append(@, Call("autoReconnectWebSocket", ""))]

\* socket.onclose with the delay taken after the counter is incremented
oncloseLateDelay(D, wasClean) ==
    LET D1 == IF wasClean THEN D
              ELSE LET D2 == [D EXCEPT !.reconnectTimers = @ + 1,
                                       !.calls = Append(@, Call("setTimeout",
                                            NumToString(backoffDelay(D.reconnectAttempts + 1)))),
                                       !.reconnectAttempts = @ + 1]
                   IN  IF D2.reconnectAttempts >= 3
                       THEN [autoReconnectWebSocket(D2) EXCEPT !.reconnectAttempts = 0]
                       ELSE D2
    IN  [D1 EXCEPT !.songInfo = WAITING]

\* socket.onclose: after an unclean close arm a reconnect timer, count the
\* attempt and, from the third on, try the alternate way and reset the counter
onclose(D, wasClean) ==
    LET D1 == IF wasClean THEN D
              ELSE LET D2 == [D EXCEPT !.reconnectTimers = @ + 1,
                                       !.calls = Append(@, Call("setTimeout",
                                            NumToString(backoffDelay(D.reconnectAttempts)))),
                                       !.reconnectAttempts = @ + 1]
                   IN  IF D2.reconnectAttempts >= 3
                       THEN [autoReconnectWebSocket(D2) EXCEPT !.reconnectAttempts = 0]
                       ELSE D2
    IN  [D1 EXCEPT !.songInfo = WAITING]

\* startHeartbeat: clear the interval there is, set a new one
startHeartbeat(D) ==
    [D EXCEPT !.heartbeatInterval = (IF @ > 0 THEN @ - 1 ELSE @) + 1]

\* the callback of the heartbeat interval
heartbeat(D) == IF D.socket = "OPEN" THEN send(D, "ping") ELSE connectWebSocket(D)

\* sendCommand
sendCommand(D, command) == IF D.socket = "OPEN" THEN send(D, command) ELSE connectWebSocket(D)

\* loadPlaylistFromStorage of the display script
displayLoadPlaylistFromStorage(D) ==
    IF TruthyText(D.stPlaylist)
    THEN IF JsonParseThrows(D.stPlaylist) THEN [D EXCEPT !.fault = TRUE]
         ELSE [D EXCEPT !.playlist = JsonParse(D.stPlaylist),
                        !.currentIndex = IF TruthyString(D.stIndex)
                                         THEN parseInt(D.stIndex) ELSE 0]
    ELSE D

\* the DOMContentLoaded listener: restore, connect, start the heartbeat
domContentLoaded(D) ==
    LET D1 == displayLoadPlaylistFromStorage(D)
    IN  IF D1.fault THEN D1 ELSE startHeartbeat(connectWebSocket(D1))

\* ------------------------------------------------------- display actions
DCommit(D) ==
    /\ dPlaylist' = D.playlist
    /\ dCurrentIndex' = D.currentIndex
    /\ songInfo' = D.songInfo
    /\ stPlaylist' = D.stPlaylist
    /\ stIndex' = D.stIndex
    /\ socket' = D.socket
    /\ orphans' = D.orphans
    /\ reconnectAttempts' = D.reconnectAttempts
    /\ reconnectTimers' = D.reconnectTimers
    /\ heartbeatInterval' = D.heartbeatInterval
    /\ requestTimers' = IF D.rendered
                        THEN [k \in DOMAIN D.requestTimers |-> [rendered |-> TRUE]]
                        ELSE D.requestTimers
    /\ UNCHANGED cvars

\* last: the handler op of the display ran and ended in D; repeat says that
\* it was given the message the handler before it was given, changed that it
\* changed the replica, rendered that the timer that fired had seen a snapshot;
\* msg is NotJson for a handler that is given no message
DRecord(op, arg, msg, rendered, D) ==
    last' = [op |-> op, arg |-> arg, msg |-> msg, preAttempts |-> reconnectAttempts,
             calls |-> D.calls, fault |-> D.fault,
             changed |-> (Replica(D) # Replica(DCur)),
             repeat |-> (op = "message" /\ last.op = "message" /\ last.msg = msg),
             rendered |-> rendered]

\* the document of the display is loaded
DomContentLoaded ==
    /\ dPhase = "boot"
    /\ LET D == domContentLoaded(DCur)
       IN  /\ DCommit(D)
           /\ DRecord("DOMContentLoaded", "", NotJson, FALSE, D)
           /\ dPhase' = IF D.fault THEN "crashed" ELSE "ready"

\* the page of the display is loaded again: the script's variables, the
\* sockets and the timers start afresh, localStorage stays
DisplayReload ==
    /\ dPhase \in {"ready", "crashed"}
    /\ dPhase' = "boot"
    /\ dPlaylist' = <<>>
    /\ dCurrentIndex' = 0
    /\ songInfo' = ""
    /\ socket' = "null"
    /\ orphans' = NoOrphans
    /\ reconnectAttempts' = 0
    /\ reconnectTimers' = 0
    /\ heartbeatInterval' = 0
    /\ requestTimers' = <<>>
    /\ last' = [op |-> "displayReload", arg |-> "", msg |-> NotJson, preAttempts |-> 0,
                calls |-> <<>>, fault |-> FALSE, changed |-> FALSE, repeat |-> FALSE,
                rendered |-> FALSE]
    /\ UNCHANGED <<stPlaylist, stIndex>>
    /\ UNCHANGED cvars

\* is let socket (orphan = FALSE), or a socket it no longer holds, in the state
HasSocket(orphan, state) == IF orphan THEN orphans[state] > 0 ELSE socket = state

\* the connection of a CONNECTING socket is established
OnOpen(orphan) ==
    /\ dPhase = "ready"
    /\ HasSocket(orphan, "CONNECTING")
    /\ Len(requestTimers) < MaxPending
    /\ LET D == onopen(IF orphan
                       THEN [DCur EXCEPT !.orphans.CONNECTING = @ - 1,
                                         !.orphans.OPEN = @ + 1]
                       ELSE [DCur EXCEPT !.socket = "OPEN"])
       IN  DCommit(D) /\ DRecord("open", IF orphan THEN "orphan" ELSE "", NotJson, FALSE, D)
    /\ UNCHANGED dPhase

\* an OPEN socket receives a message
OnMessage(orphan, data) ==
    /\ dPhase = "ready"
    /\ HasSocket(orphan, "OPEN")
    /\ LET D == onmessage(DCur, data)
       IN  DCommit(D) /\ DRecord("message", IF orphan THEN "orphan" ELSE "", data, FALSE, D)
    /\ UNCHANGED dPhase

\* a socket is closed: a connection that could not be made or was lost closes
\* unclean, an established one can also be closed cleanly
OnClose(orphan, state, wasClean) ==
    /\ dPhase = "ready"
    /\ HasSocket(orphan, state)
    /\ wasClean => state = "OPEN"
    /\ ~wasClean => reconnectTimers < MaxTimers
    /\ LET D == onclose(IF orphan THEN [DCur EXCEPT !.orphans[state] = @ - 1]
                        ELSE [DCur EXCEPT !.socket = "CLOSED"], wasClean)
       IN  DCommit(D)
           /\ DRecord("close", IF wasClean THEN "clean" ELSE "unclean", NotJson, FALSE, D)
    /\ UNCHANGED dPhase

\* socket.onerror: logs
OnError(orphan) ==
    /\ dPhase = "ready"
    /\ HasSocket(orphan, "CONNECTING") \/ HasSocket(orphan, "OPEN")
    /\ DCommit(DCur) /\ DRecord("error", IF orphan THEN "orphan" ELSE "", NotJson, FALSE, DCur)
    /\ UNCHANGED dPhase

\* a reconnect timer fires
ReconnectTimer ==
    /\ dPhase = "ready"
    /\ reconnectTimers > 0
    /\ LET D == connectWebSocket([DCur EXCEPT !.reconnectTimers = @ - 1])
       IN  /\ Live(D) <= MaxSockets
           /\ DCommit(D) /\ DRecord("reconnect", "", NotJson, FALSE, D)
    /\ UNCHANGED dPhase

\* the heartbeat interval fires
Heartbeat ==
    /\ dPhase = "ready"
    /\ heartbeatInterval > 0
    /\ LET D == heartbeat(DCur)
       IN  /\ Live(D) <= MaxSockets
           /\ DCommit(D) /\ DRecord("heartbeat", "", NotJson, FALSE, D)
    /\ UNCHANGED dPhase

\* the oldest 2 s timer fires
RequestTimer ==
    /\ dPhase = "ready"
    /\ requestTimers # <<>>
    /\ LET D == requestAgain([DCur EXCEPT !.requestTimers = Tail(@)])
       IN  DCommit(D)
           /\ DRecord("rerequest", "", NotJson, Head(requestTimers).rendered, D)
    /\ UNCHANGED dPhase

\* a control button, or the refresh button, which does the same with
\* requestCurrentSongInfo
SendCommand(command) ==
    /\ dPhase = "ready"
    /\ LET D == sendCommand(DCur, command)
       IN  /\ Live(D) <= MaxSockets
           /\ DCommit(D) /\ DRecord("command", command, NotJson, FALSE, D)
    /\ UNCHANGED dPhase

\* the handlers that work on the playlist, the cursor and the player's video,
\* with a capability whose video data has not arrived
NextCursor ==
    \/ \E u \in Urls : OnPlayerReady(u)
    \/ Reload
    \/ PlayButton
    \/ PauseButton
    \/ NextButton
    \/ PrevButton
    \/ \E input \in Inputs : AddVideo(input)
    \/ \E index \in 0 .. MaxLen - 1 : ClickItem(index)
    \/ \E throws \in BOOLEAN : PlayerPlaying(throws)
    \/ PlayerPaused
    \/ PlayerEnded
    \/ \E throws \in BOOLEAN : Tick(throws)

\* the same with a capability whose video data arrives
NextPlaylist == NextCursor \/ MetaArrives

\* adding, loading and playing with a capability whose video data arrives
NextEnrich ==
    \/ \E u \in Urls : OnPlayerReady(u)
    \/ \E input \in {SHORT, ID1} : AddVideo(input)
    \/ NextButton
    \/ \E throws \in BOOLEAN : PlayerPlaying(throws)
    \/ PlayerPaused
    \/ \E throws \in BOOLEAN : Tick(throws)
    \/ MetaArrives

\* opening the page with any parameters and adding, loading and stepping
\* with any text in the url field
NextInput ==
    \/ \E u \in AllUrls : OnPlayerReady(u)
    \/ Reload
    \/ \E input \in AllInputs : AddVideo(input)
    \/ NextButton
    \/ \E index \in 0 .. MaxLen - 1 : ClickItem(index)

\* the playlist handlers on a page that can be terminated while it saves
NextPersist == NextCursor \/ KilledInSave

\* the handlers that work on the volume
NextVolume ==
    \/ \E u \in Urls : OnPlayerReady(u)
    \/ Reload
    \/ \E volume \in SliderValues : VolumeInput(volume)

\* the channel, timer and message events of the display
NextDisplay ==
    \/ DomContentLoaded
    \/ \E orphan \in BOOLEAN : OnOpen(orphan)
    \/ \E orphan \in BOOLEAN : \E data \in {Snapshot1, Pong} : OnMessage(orphan, data)
    \/ \E orphan \in BOOLEAN : \E state \in {"CONNECTING", "OPEN"} :
           \E wasClean \in BOOLEAN : OnClose(orphan, state, wasClean)
    \/ \E orphan \in BOOLEAN : OnError(orphan)
    \/ ReconnectTimer
    \/ Heartbeat
    \/ RequestTimer

\* a display that receives every kind of message on the channel it holds
NextReplica ==
    \/ DomContentLoaded
    \/ OnOpen(FALSE)
    \/ \E data \in Messages : OnMessage(FALSE, data)
    \/ OnClose(FALSE, "OPEN", TRUE)
    \/ Heartbeat
    \/ RequestTimer
    \/ DisplayReload

Next ==
    \/ NextPlaylist
    \/ NextVolume
    \/ NextDisplay
    \/ NextReplica
    \/ \E command \in {"play", "requestCurrentSongInfo"} : SendCommand(command)

\* -------------------------------------------------------------------- init
\* the page as the browser has loaded it, before the player calls onReady
Fresh ==
    /\ playlist = <<>>
    /\ currentIndex = 0
    /\ currentVideoId = ""
    /\ pState = UNSTARTED
    /\ pVid = ""
    /\ pVolume = 50
    /\ pMuted = FALSE
    /\ pMeta = ""
    /\ intervals = 0
    /\ phase = "boot"
    /\ last = [op |-> "init", arg |-> "", preIndex |-> 0, calls |-> <<>>, lv |-> NoLoad,
               fault |-> FALSE, mutated |-> FALSE]
    /\ dPhase = "boot"
    /\ dPlaylist = <<>>
    /\ dCurrentIndex = 0
    /\ songInfo = ""
    /\ socket = "null"
    /\ orphans = NoOrphans
    /\ reconnectAttempts = 0
    /\ reconnectTimers = 0
    /\ heartbeatInterval = 0
    /\ requestTimers = <<>>

\* what localStorage may hold under the playlist keys when the page is
\* opened: nothing (first run), or a record this script did not write (the
\* display script stores whatever playlist and cursor a snapshot carries under
\* the same two keys, src/overlay.css:909-912): text that is not JSON, or an
\* array of tracks with any cursor
StoredTracks == <<Track(ID1, "Loading...", "Loading..."), Track(SHORT, "Loading...", "Loading...")>>
StoredRecords ==
    {<<Absent, NULL>>, <<Garbage, "0">>,
     <<JsonStringify(StoredTracks), "7">>,
     <<JsonStringify(StoredTracks), "-4">>,
     <<JsonStringify(StoredTracks), "abc">>}
StoredVolumes == {NULL, "0", "30", "150", "abc"}

Init ==
    /\ Fresh
    /\ \E r \in StoredRecords : stPlaylist = r[1] /\ stIndex = r[2]
    /\ stVolume \in StoredVolumes

Spec == Init /\ [][Next]_vars

\* the playlist handlers, started without a stored volume
InitPlaylist ==
    /\ Fresh
    /\ \E r \in StoredRecords : stPlaylist = r[1] /\ stIndex = r[2]
    /\ stVolume = NULL

SpecPlaylist == InitPlaylist /\ [][NextPlaylist]_vars

SpecCursor == InitPlaylist /\ [][NextCursor]_vars

\* the playlist handlers on a first run: nothing stored
InitFirstRun ==
    /\ Fresh
    /\ stPlaylist = Absent
    /\ stIndex = NULL
    /\ stVolume = NULL

SpecFirstRun == InitFirstRun /\ [][NextCursor]_vars

\* the playlist handlers on a first run, on a page that can be terminated
\* while it saves
SpecPersist == InitFirstRun /\ [][NextPersist]_vars

\* enrichment
SpecEnrich == InitPlaylist /\ [][NextEnrich]_vars

\* enrichment on a first run: setInterval fires its callback every 3 s for as
\* long as the timer lives, so a tick on which getVideoData does not throw is
\* not put off for ever
SpecEnrichFair == InitFirstRun /\ [][NextEnrich]_vars /\ WF_vars(Tick(FALSE))

\* url parameters and the url field
SpecInput == InitFirstRun /\ [][NextInput]_vars

\* the volume handlers
SpecVolume == Init /\ [][NextVolume]_vars

\* the display with a snapshot and a pong on its channels
SpecDisplay == InitFirstRun /\ [][NextDisplay]_vars

\* the display's replica
SpecReplica == InitFirstRun /\ [][NextReplica]_vars

\* a page that is opened again and again with ?autostart=true&video=..., with
\* nobody at the controls: the starts, the restarts and the player's events
NextStartup ==
    \/ OnPlayerReady(Autostart)
    \/ Reload
    \/ \E throws \in BOOLEAN : PlayerPlaying(throws)
    \/ PlayerEnded
    \/ \E throws \in BOOLEAN : Tick(throws)
    \/ MetaArrives

SpecStartup == InitFirstRun /\ [][NextStartup]_vars

\* ------------------------------------------------------------------ claims
ValidCursor == currentIndex # NaN /\ currentIndex >= 0 /\ currentIndex < Len(playlist)

LoadCalls == SelectSeq(last.calls, LAMBDA c : c.fn = "loadVideoById")

\* C1: whenever the playlist is non-empty, currentIndex is an integer with
\* 0 <= currentIndex < playlist length.
C1_CursorValid == Len(playlist) > 0 => ValidCursor

\* C2: after every handler that changed the playlist or the cursor (add,
\* enrichment, load, next, previous, auto-advance) the persisted record equals
\* the playlist and the cursor in memory.
C2_WriteThrough ==
    (last.op \in {"add", "playing", "tick", "click", "next", "previous", "ended"}
        /\ last.mutated)
    => (stPlaylist = JsonStringify(playlist) /\ stIndex = NumToString(currentIndex))

\* a persisted record whose playlist does not parse or whose cursor is no number
MalformedRecord ==
    \/ stPlaylist = Garbage
    \/ stPlaylist.kind = "json" /\ TruthyString(stIndex) /\ parseInt(stIndex) = NaN

\* C3: startup on a malformed persisted record raises no fault, installs the
\* control handlers and leaves playlist = [] and currentIndex = 0.
C3_MalformedRestore ==
    (last.op = "onPlayerReady" /\ last.arg = "" /\ MalformedRecord)
    => (~last.fault /\ phase = "ready" /\ playlist = <<>> /\ currentIndex = 0)

\* C4: at most one polling task is alive at any time and none is alive while
\* the player is not playing.
C4_PollingTiedToPlaying == intervals <= 1 /\ (pState # PLAYING => intervals = 0)

\* C5: on 'ended' with a non-empty playlist the cursor becomes
\* (currentIndex + 1) mod length and a load of the entry at the new cursor is
\* the one call issued; with one entry the same entry is loaded again.
C5_EndedAdvances ==
    (last.op = "ended" /\ Len(playlist) > 0)
    => /\ last.preIndex # NaN
       /\ currentIndex = (last.preIndex + 1) % Len(playlist)
       /\ last.calls = <<Call("loadVideoById", playlist[currentIndex + 1].id)>>
       /\ pVid = playlist[currentIndex + 1].id

C5_Witness ==
    /\ last.op = "ended"
    /\ Len(playlist) = 2
    /\ last.preIndex = 1
    /\ currentIndex = 0

\* next() applied k times with nothing in between
RECURSIVE NextTimes(_, _)
NextTimes(S, k) == IF k = 0 THEN S ELSE NextTimes(playNextVideo(S), k - 1)

\* C6: from every state with a non-empty playlist of length n, next() applied
\* n times returns the cursor to the value it started from.
C6_NextClosure ==
    (phase = "ready" /\ Len(playlist) > 0)
    => NextTimes(Cur, Len(playlist)).currentIndex = currentIndex

\* C7: on a non-empty playlist of length n with cursor c, next() sets the
\* cursor to (c + 1) mod n and previous() to (c - 1 + n) mod n, and each loads
\* the track at the new cursor.
C7_NextPrevWrap ==
    (last.op \in {"next", "previous"} /\ Len(playlist) > 0)
    => /\ last.preIndex # NaN
       /\ currentIndex = IF last.op = "next"
                         THEN (last.preIndex + 1) % Len(playlist)
                         ELSE (last.preIndex - 1 + Len(playlist)) % Len(playlist)
       /\ last.calls = <<Call("loadVideoById", playlist[currentIndex + 1].id)>>

\* C8: loadVideo(index) with a valid index sets the cursor to index and issues
\* a load of playlist[index].id; with index < 0 or index >= length (or no
\* number) it leaves the cursor and the current track id as they were and
\* issues no load.
C8_LoadGuard ==
    last.lv.called
    => IF last.lv.index # NaN /\ last.lv.index >= 0 /\ last.lv.index < Len(playlist)
       THEN /\ last.lv.done
            /\ currentIndex = last.lv.index
            /\ currentVideoId = playlist[last.lv.index + 1].id
            /\ LoadCalls # <<>>
            /\ LoadCalls[Len(LoadCalls)] = Call("loadVideoById", playlist[last.lv.index + 1].id)
            /\ pVid = playlist[last.lv.index + 1].id
       ELSE /\ ~last.lv.done
            /\ currentIndex = last.lv.preIndex
            /\ currentVideoId = last.lv.preVid
            /\ LoadCalls = <<>>

C8_Witness ==
    /\ last.op = "next"
    /\ last.lv.called
    /\ ~last.lv.done
    /\ Len(playlist) = 2
    /\ last.lv.index = -1

Clamp(v) == IF v < 0 THEN 0 ELSE IF v > 100 THEN 100 ELSE v

\* C9: the volume given to the capability is within [0,100] in every state,
\* and after the slider is set to v the capability's volume and the persisted
\* volume are clamp(v, 0, 100).
C9_VolumeClamped ==
    /\ pVolume # NaN /\ pVolume >= 0 /\ pVolume <= 100
    /\ last.op = "volume"
       => /\ pVolume = Clamp(parseInt(last.arg))
          /\ stVolume = NumToString(Clamp(parseInt(last.arg)))

\* C10: after the slider is set to 0 the capability is muted, after it is set
\* to v > 0 the capability is not muted, and in every state volume = 0
\* implies muted.
C10_ZeroImpliesMuted ==
    /\ pVolume = 0 => pMuted
    /\ (last.op = "volume" /\ parseInt(last.arg) = 0) => pMuted
    /\ (last.op = "volume" /\ parseInt(last.arg) > 0) => ~pMuted

C10_Witness ==
    /\ last.op = "volume"
    /\ pVolume > 0
    /\ ~pMuted
    /\ last.calls = <<Call("setVolume", last.arg), Call("unMute", "")>>

\* C11: the persisted record never holds the playlist of a new state next to
\* the cursor of the previous one: when the page is terminated while it
\* saves, the record is either wholly the old one or wholly the new one.
C11_AtomicPersist ==
    last.op = "killed" => last.arg # "torn"

\* C12: startup with no persisted record yields an empty playlist and cursor
\* 0, raises no fault and issues no load to the player.
C12_FirstRunRestore ==
    /\ (phase = "boot" /\ stPlaylist = Absent)
       => LET S == loadPlaylistFromStorage(Cur)
          IN  /\ ~S.fault
              /\ S.playlist = <<>> /\ S.currentIndex = 0
              /\ ~S.lv.called
              /\ \A k \in 1 .. Len(S.calls) : S.calls[k].fn # "loadVideoById"
    /\ (last.op = "onPlayerReady" /\ last.arg = "" /\ stPlaylist = Absent)
       => /\ ~last.fault /\ phase = "ready"
          /\ playlist = <<>> /\ currentIndex = 0
          /\ LoadCalls = <<>> /\ pVid = ""

C12_Witness ==
    /\ last.op = "onPlayerReady" /\ last.arg = ""
    /\ stPlaylist = Absent /\ stIndex = NULL
    /\ phase = "ready" /\ playlist = <<>> /\ currentIndex = 0

\* the identifiers addToPlaylist is given
AddedIds == {ID1, ID2, SHORT}

\* addToPlaylist leaves the entries there were where they were and puts one
\* Track for the identifier behind them
AppendsOne(S, id) ==
    /\ Len(S.playlist) = Len(playlist) + 1
    /\ SubSeq(S.playlist, 1, Len(playlist)) = playlist
    /\ S.playlist[Len(playlist) + 1] = Track(id, "Loading...", "Loading...")

\* C13 as stated: add appends exactly one Track at the end, whether or not
\* the identifier is already present, leaves every existing entry in place,
\* and returns the index of the new entry (the previous length).
C13_AddReturnsIndex ==
    \A id \in AddedIds :
        LET S == addToPlaylist(Cur, id, "Loading...", "Loading...")
        IN  AppendsOne(S, id) /\ S.ret.defined /\ S.ret.val = Len(playlist)

\* C13 amended: add appends exactly one Track at the end, so that its index
\* is the previous length, whether or not the identifier is already present,
\* and leaves every existing entry in place; it returns no value.
C13_AddAppends ==
    /\ \A id \in AddedIds :
           LET S == addToPlaylist(Cur, id, "Loading...", "Loading...")
           IN  AppendsOne(S, id) /\ S.ret = UNDEFINED
    /\ (last.op = "add" /\ last.arg # "" /\ Resolved[last.arg] # NULL)
       => /\ last.mutated
          /\ playlist[Len(playlist)] = Track(Resolved[last.arg], "Loading...", "Loading...")

C13_Witness ==
    /\ last.op = "add" /\ last.mutated
    /\ Len(playlist) = 2
    /\ playlist[1].id = playlist[2].id

\* the videos whose data getVideoData may report, "" for none
Metas == {"", ID1, SHORT}

\* C14: enrichment changes only the title and the author of the entry at the
\* cursor and persists the result; ids, length, order, the other entries and
\* the cursor stay; with the cursor out of range the playlist and the
\* persisted record stay as they are.
C14_EnrichFrame ==
    /\ \A meta \in Metas :
           LET S == updateMarquee(Cur, VideoData(meta), FALSE)
           IN  /\ S.currentIndex = currentIndex
               /\ Len(S.playlist) = Len(playlist)
               /\ IF ValidCursor
                  THEN /\ \A k \in 1 .. Len(playlist) :
                              /\ S.playlist[k].id = playlist[k].id
                              /\ k # currentIndex + 1 => S.playlist[k] = playlist[k]
                       /\ S.playlist[currentIndex + 1].title
                              = (IF meta = "" THEN "Unknown Title" ELSE TitleOf(meta))
                       /\ S.playlist[currentIndex + 1].author
                              = (IF meta = "" THEN "Unknown Artist" ELSE AuthorOf(meta))
                       /\ S.stPlaylist = JsonStringify(S.playlist)
                       /\ S.stIndex = NumToString(currentIndex)
                  ELSE /\ S.playlist = playlist
                       /\ S.stPlaylist = stPlaylist
                       /\ S.stIndex = stIndex
    /\ (last.op \in {"tick", "playing"} /\ last.arg = "")
       => /\ ValidCursor
          /\ currentIndex = last.preIndex
          /\ playlist[currentIndex + 1].id = pVid
          /\ playlist[currentIndex + 1].title
                 = (IF pMeta = "" THEN "Unknown Title" ELSE TitleOf(pMeta))
          /\ stPlaylist = JsonStringify(playlist)
          /\ stIndex = NumToString(currentIndex)

C14_Witness ==
    /\ last.op = "tick" /\ last.arg = ""
    /\ Len(playlist) = 2 /\ currentIndex = 1
    /\ playlist[2].title = TitleOf(playlist[2].id)
    /\ playlist[1].title = "Loading..."
    /\ stPlaylist = JsonStringify(playlist)

\* the player plays a video and reports that video's data
DataThere == pState = PLAYING /\ pVid # "" /\ pMeta = pVid

\* the entry at the cursor carries the data of the video the player plays,
\* in memory and in the persisted record
Enriched ==
    /\ ValidCursor
    /\ playlist[currentIndex + 1].title = TitleOf(pVid)
    /\ playlist[currentIndex + 1].author = AuthorOf(pVid)
    /\ stPlaylist = JsonStringify(playlist)

\* C15: if the player stays in PLAYING and reports the video's real data, the
\* entry at the cursor eventually carries that title and author, in memory
\* and in the persisted record.
C15_EventuallyEnriched == DataThere ~> (Enriched \/ pState # PLAYING)

C15_Witness ==
    /\ last.op = "tick" /\ last.arg = ""
    /\ DataThere /\ Enriched
    /\ currentIndex = 1

\* C16: when getVideoData throws, updateMarquee changes nothing: the player's
\* state, the playlist, the cursor and the persisted record stay, no fault
\* leaves the handler and the polling timer lives on.
C16_MetadataFaultCaught ==
    /\ \A meta \in Metas : updateMarquee(Cur, VideoData(meta), TRUE) = Cur
    /\ (last.op \in {"tick", "playing"} /\ last.arg = "throws")
       => /\ ~last.fault
          /\ ~last.mutated
          /\ pState = PLAYING
          /\ intervals >= 1

C16_Witness ==
    /\ last.op = "tick" /\ last.arg = "throws"
    /\ pState = PLAYING /\ intervals >= 1
    /\ ValidCursor /\ playlist[currentIndex + 1].title = "Loading..."

\* C17 as stated: a text that fails identifier resolution is rejected with no
\* change of the playlist, the cursor or the persisted record and with no
\* load; the text not-a-video is such a text.
C17_RejectsUnresolvable ==
    /\ phase = "ready"
       => \A input \in AllInputs :
              Resolved[input] = NULL => addVideoToPlaylist(Cur, input) = Cur
    /\ (last.op = "add" /\ (last.arg = ID2 \/ Resolved[last.arg] = NULL))
       => (~last.mutated /\ LoadCalls = <<>>)

\* C17 amended: a text for which extractVideoId returns null is rejected with
\* no change of the playlist, the cursor or the persisted record and with no
\* load; abc is such a text, while not-a-video, which has 11 characters, is
\* taken as an identifier.
C17_RejectsFailed ==
    /\ phase = "ready"
       => \A input \in AllInputs :
              Resolved[input] = NULL => addVideoToPlaylist(Cur, input) = Cur
    /\ (last.op = "add" /\ Resolved[last.arg] = NULL)
       => (~last.mutated /\ LoadCalls = <<>>)
    /\ Resolved[SHORT] = NULL /\ Resolved[URL_BAD] = NULL
    /\ Resolved[ID2] = ID2

C17_Witness ==
    /\ last.op = "add" /\ last.arg = URL_BAD
    /\ ~last.mutated /\ last.calls = <<>>
    /\ Len(playlist) = 1
    /\ stPlaylist = JsonStringify(playlist)

\* the standard forms of a video's address, and the identifier in each
StandardForms == {ID1, ID3, URL1, URL_WATCH, URL_WATCH_T, URL_AMPV, URL_EMBED, URL_V}
FormId == [s \in StandardForms |-> IF s \in {ID3, URL_WATCH_T} THEN ID3 ELSE ID1]

\* C18: resolution maps a raw 11-character identifier to itself and each
\* standard url (youtu.be/<id>, watch?v=<id>, embed/<id>, v/<id>, &v=<id>) to
\* its identifier, and that identifier is what the add button appends.
C18_Resolution ==
    /\ \A s \in StandardForms : extractVideoId(s) = FormId[s]
    /\ (last.op = "add" /\ last.arg \in StandardForms)
       => /\ last.mutated
          /\ playlist[Len(playlist)].id = FormId[last.arg]

C18_Witness ==
    /\ last.op = "add" /\ last.arg = URL_EMBED
    /\ Len(playlist) = 2
    /\ playlist[1].id = ID3 /\ playlist[2].id = ID1

\* C19: after a start with autostart and a video identifier the playlist
\* ends with an entry for that identifier, the cursor points at an entry for
\* it and it is the video the player was told to load, whatever was restored.
C19_AutostartLoadsSeed ==
    (last.op = "onPlayerReady" /\ last.arg = "autostart" /\ ~last.fault)
    => /\ Len(playlist) > 0
       /\ playlist[Len(playlist)].id = Autostart.video
       /\ ValidCursor
       /\ playlist[currentIndex + 1].id = Autostart.video
       /\ LoadCalls # <<>>
       /\ pVid = Autostart.video

\* C20: after a start with only the video parameter the playlist holds an
\* entry for that identifier and a load of it has been issued.
C20_VideoParamSeeds ==
    (last.op = "onPlayerReady" /\ last.arg = "video" /\ ~last.fault)
    => /\ Len(playlist) > 0
       /\ playlist[Len(playlist)].id = VideoOnly.video
       /\ LoadCalls # <<>>
       /\ pVid = VideoOnly.video

\* C21: applying the same snapshot, tagged nowPlaying or bare, to the display
\* twice leaves the replica (title, author, playlist, cursor) after the second
\* application as it was after the first.
C21_SnapshotIdempotent ==
    /\ dPhase = "ready"
       => \A data \in Snapshots :
              Replica(updateSongInfo(updateSongInfo(DCur, data), data))
                  = Replica(updateSongInfo(DCur, data))
    /\ (last.op = "message" /\ last.repeat /\ last.msg \in Snapshots) => ~last.changed

C21_Witness ==
    /\ last.op = "message" /\ last.repeat
    /\ last.msg = Snapshot1
    /\ dPlaylist = SentTracks /\ dCurrentIndex = 1
    /\ songInfo = NowPlayingText(TitleOf(ID1), AuthorOf(ID1))

\* C22: consecutive unclean closes from attempt 0 on schedule the reconnect
\* after min(1000 * 1.5^attempts, 30000) ms, that is 1000, 1500, 2250, never
\* more than 30000; the third in a row invokes the alternate discovery and
\* resets the counter to 0; a channel open resets the counter to 0.
C22_Backoff ==
    /\ \A a \in 0 .. 12 : backoffDelay(a) <= 30000
    /\ backoffDelay(3) = 3375 /\ backoffDelay(9) = 30000
    /\ (last.op = "close" /\ last.arg = "unclean")
       => /\ last.preAttempts \in 0 .. 2
          /\ last.calls[1] = Call("setTimeout",
                                  NumToString(<<1000, 1500, 2250>>[last.preAttempts + 1]))
          /\ IF last.preAttempts = 2
             THEN /\ last.calls = <<Call("setTimeout", "2250"),
                                    Call("autoReconnectWebSocket", "")>>
                  /\ reconnectAttempts = 0
             ELSE /\ Len(last.calls) = 1
                  /\ reconnectAttempts = last.preAttempts + 1
    /\ last.op = "open" => reconnectAttempts = 0

C22_Witness ==
    /\ last.op = "close" /\ last.arg = "unclean"
    /\ last.preAttempts = 2
    /\ reconnectAttempts = 0
    /\ Len(last.calls) = 2

\* C23: when the channel the display holds opens, requestCurrentSongInfo is
\* sent once; when the 2 s timer fires after a snapshot was rendered nothing
\* is sent, and when it fires with no snapshot rendered and the channel open
\* one more request is sent.
C23_OneFollowUp ==
    /\ (last.op = "open" /\ last.arg = "")
       => last.calls = <<Call("send", "requestCurrentSongInfo")>>
    /\ (last.op = "rerequest" /\ last.rendered) => last.calls = <<>>
    /\ (last.op = "rerequest" /\ ~last.rendered /\ socket = "OPEN")
       => last.calls = <<Call("send", "requestCurrentSongInfo")>>

\* C24: at most one reconnect timer and at most one heartbeat timer are armed
\* at any time, across every interleaving of open, close, error and timer
\* events.
C24_SingleTimers == reconnectTimers <= 1 /\ heartbeatInterval <= 1

\* C25: an enrichment tick stores the metadata the capability reports only
\* in the entry of the track the metadata belongs to: after a refresh the
\* entry at the cursor never carries the title or author of another track.
C25_MetadataOfTrack ==
    (last.op \in {"tick", "playing"} /\ last.arg = "" /\ ValidCursor)
    => /\ playlist[currentIndex + 1].title
              \in {TitleOf(playlist[currentIndex + 1].id), "Unknown Title"}
       /\ playlist[currentIndex + 1].author
              \in {AuthorOf(playlist[currentIndex + 1].id), "Unknown Artist"}

\* C26: whenever the playlist is non-empty and the player has been given a
\* video, the cursor is valid and currentVideoId, the video the player holds
\* and the identifier of the entry at the cursor are the same.
C26_CursorMatchesLoaded ==
    (Len(playlist) > 0 /\ pVid # "")
    => /\ ValidCursor
       /\ currentVideoId = playlist[currentIndex + 1].id
       /\ pVid = currentVideoId

C26_Witness ==
    /\ last.op = "previous"
    /\ Len(playlist) = 2 /\ playlist[1].id # playlist[2].id
    /\ last.preIndex = 0 /\ currentIndex = 1
    /\ currentVideoId = playlist[2].id /\ pVid = playlist[2].id

\* C27: the add button with a text that names a video, on an empty playlist,
\* sets the cursor to 0 and loads the new entry; on a non-empty playlist it
\* appends the entry, leaves the cursor, currentVideoId and the player's state
\* as they were and calls nothing on the player.
C27_AddFrame ==
    /\ phase = "ready"
       => \A input \in Inputs :
              (input # "" /\ Resolved[input] # NULL)
              => LET S == addVideoToPlaylist(Cur, input)
                 IN  /\ S.playlist = Append(playlist, Track(Resolved[input], "Loading...", "Loading..."))
                     /\ IF Len(playlist) = 0
                        THEN /\ S.currentIndex = 0
                             /\ S.currentVideoId = Resolved[input]
                             /\ S.calls = <<Call("loadVideoById", Resolved[input])>>
                        ELSE /\ S.currentIndex = currentIndex
                             /\ S.currentVideoId = currentVideoId
                             /\ S.pState = pState
                             /\ S.pVid = pVid
                             /\ S.calls = <<>>
    /\ (last.op = "add" /\ last.mutated)
       => IF Len(playlist) = 1
          THEN currentIndex = 0 /\ last.calls = <<Call("loadVideoById", playlist[1].id)>>
          ELSE currentIndex = last.preIndex /\ last.calls = <<>>

C27_Witness ==
    /\ last.op = "add" /\ last.mutated
    /\ Len(playlist) = 2 /\ currentIndex = 0 /\ last.preIndex = 0
    /\ pState = PLAYING /\ pVid = playlist[1].id
    /\ last.calls = <<>>

\* C28: while the playlist is empty the play, next and previous buttons and
\* the player's ENDED event call nothing on the player and leave the cursor,
\* currentVideoId and the two stored keys as they were.
C28_EmptyNoOp ==
    /\ (phase = "ready" /\ Len(playlist) = 0)
       => /\ playClick(Cur) = Cur
          /\ playNextVideo(Cur) = Cur
          /\ playPreviousVideo(Cur) = Cur
          /\ LET S == playNextVideo([Cur EXCEPT !.pState = ENDED])
             IN  /\ S.calls = <<>>
                 /\ S.currentIndex = currentIndex
                 /\ S.currentVideoId = currentVideoId
                 /\ S.pVid = pVid
                 /\ S.stPlaylist = stPlaylist
                 /\ S.stIndex = stIndex
    /\ (last.op \in {"play", "next", "previous", "ended"} /\ Len(playlist) = 0)
       => /\ last.calls = <<>>
          /\ ~last.mutated
          /\ currentVideoId = ""

C28_Witness ==
    /\ last.op \in {"play", "next", "previous"}
    /\ phase = "ready" /\ Len(playlist) = 0
    /\ last.calls = <<>> /\ currentIndex = 0 /\ stPlaylist = Absent

\* C29: auto-advance never stops and never skips. Behind the liveness claim
\* stand two properties of every step: a page that is ready with a non-empty
\* playlist has the entry at the cursor loaded in the player, so that there is
\* a track whose ENDED event drives the advance; and every ENDED event moves
\* the cursor to the next entry in playlist order, wrapping at the end, and
\* loads it.
C29_AutoAdvance ==
    /\ (phase = "ready" /\ Len(playlist) > 0)
       => /\ ValidCursor
          /\ pVid = playlist[currentIndex + 1].id
    /\ (last.op = "ended" /\ Len(playlist) > 0)
       => /\ last.preIndex # NaN
          /\ currentIndex = (last.preIndex + 1) % Len(playlist)
          /\ last.calls = <<Call("loadVideoById", playlist[currentIndex + 1].id)>>

\* C30: in every step, an entry whose title and author are no placeholder
\* keeps a title and an author that are no placeholder for as long as the
\* playlist holds it: no PLAYING event and no polling tick writes
\* 'Unknown Title', 'Unknown Artist' or 'Loading...' over metadata the player
\* has reported.
C30_NoDowngrade ==
    [][\A k \in 1 .. Len(playlist) :
           (/\ k <= Len(playlist')
            /\ playlist[k].title \notin {"Unknown Title", "Loading..."}
            /\ playlist[k].author \notin {"Unknown Artist", "Loading..."})
           => /\ playlist'[k].title \notin {"Unknown Title", "Loading..."}
              /\ playlist'[k].author \notin {"Unknown Artist", "Loading..."}]_vars

\* C31: on a page that started with nothing stored, every id in the playlist
\* has 11 characters and is what extractVideoId returns for it: the add button
\* and the video parameter of the page's url store no other identifier.
C31_StoredIdsResolve ==
    \A k \in 1 .. Len(playlist) :
        /\ Len(Chars(playlist[k].id)) = 11
        /\ extractVideoId(playlist[k].id) = playlist[k].id

\* C32: a start that finds the record an earlier start with the same
\* parameters left, nobody having touched the controls in between, leaves the
\* persisted playlist with the length and the ids it had.
C32_StartupIdempotent ==
    [][(/\ phase = "boot" /\ phase' = "ready"
        /\ stPlaylist.kind = "json")
       => /\ stPlaylist'.kind = "json"
          /\ Len(JsonParse(stPlaylist')) = Len(JsonParse(stPlaylist))
          /\ \A k \in 1 .. Len(JsonParse(stPlaylist)) :
                 JsonParse(stPlaylist')[k].id = JsonParse(stPlaylist)[k].id]_vars

====
